---- MODULE Spec2Model ----
(***************************************************************************)
(* Model of sfepy/fem/quadratures.py: the QuadraturePoints constructor and *)
(* the exactly representable entries of quadrature_tables.                 *)
(*                                                                         *)
(* Floating-point numbers are modelled as exact rationals <<n, d>> in      *)
(* lowest terms with d > 0, plus one not-a-number value <<0, 0>>.          *)
(* Rounding is not modelled: equalities below are equalities of reals.     *)
(***************************************************************************)
EXTENDS Integers, Sequences, FiniteSets, TLC

VARIABLES origin, args, rule

vars == <<origin, args, rule>>

\* ------------------------------------------------------------------ bounds
MaxPoints == 2
MaxDim == 2

\* ------------------------------------------------------- float64 arithmetic
Abs(n) == IF n < 0 THEN -n ELSE n

RECURSIVE Gcd(_, _)
Gcd(a, b) == IF b = 0 THEN a ELSE Gcd(b, a % b)

NaN == <<0, 0>>

IsNaN(x) == x[2] = 0

R(n, d) ==
    LET g == Gcd(Abs(n), Abs(d))
        s == IF d < 0 THEN -1 ELSE 1
    IN  IF d = 0 THEN NaN ELSE <<s * (n \div g), s * (d \div g)>>

RAdd(x, y) ==
    IF IsNaN(x) \/ IsNaN(y) THEN NaN
    ELSE R(x[1] * y[2] + y[1] * x[2], x[2] * y[2])

RSub(x, y) ==
    IF IsNaN(x) \/ IsNaN(y) THEN NaN
    ELSE R(x[1] * y[2] - y[1] * x[2], x[2] * y[2])

RMul(x, y) ==
    IF IsNaN(x) \/ IsNaN(y) THEN NaN
    ELSE R(x[1] * y[1], x[2] * y[2])

RDiv(x, y) ==
    IF IsNaN(x) \/ IsNaN(y) THEN NaN
    ELSE R(x[1] * y[2], x[2] * y[1])

\* x == y on floats; nan == nan is False.
REq(x, y) == ~IsNaN(x) /\ ~IsNaN(y) /\ x = y

Zero == R(0, 1)
One == R(1, 1)
Two == R(2, 1)
Half == R(1, 2)

RECURSIVE NmProd(_)
NmProd(s) == IF s = <<>> THEN One ELSE RMul(s[1], NmProd(Tail(s)))

\* ------------------------------------------------------------ the arguments
\* An array_like argument: None, a nested Python list, a numpy array, or a
\* value numpy cannot turn into a float matrix (ragged rows, non-numbers).
NoneArg == [kind |-> "none", rows |-> <<>>]
ListArg(rows) == [kind |-> "list", rows |-> rows]
ArrayArg(rows) == [kind |-> "array", rows |-> rows]
RaggedArg == [kind |-> "ragged", rows |-> <<>>]

NoBounds == [given |-> FALSE, a |-> Zero, b |-> One]
Bounds(a, b) == [given |-> TRUE, a |-> a, b |-> b]

\* ----------------------------------------------------------------- the rule
\* The attributes of a constructed object; err # "none" when __init__ raised
\* and no object exists.
NoRule ==
    [err |-> "unbuilt", coors |-> <<>>, weights |-> <<>>, n_point |-> 0,
     dim |-> 0, volume |-> Zero, bounds |-> <<0, 1>>]

Failure(e) == [NoRule EXCEPT !.err = e]

\* nm.array(data, dtype=nm.float64, ndmin=2): None becomes [[nan]].
NmArray2D(data) ==
    IF data.kind = "none" THEN ArrayArg(<< <<NaN>> >>) ELSE ArrayArg(data.rows)

\* data[:,:-1] and data[:,-1]
ColumnsButLast(rows) ==
    [i \in 1..Len(rows) |-> SubSeq(rows[i], 1, Len(rows[i]) - 1)]

LastColumn(rows) == [i \in 1..Len(rows) |-> rows[i][Len(rows[i])]]

\* self.bounds = (0, 1)
SelfBounds == <<0, 1>>

\* Variant of Volume that drops the tp_fix factor.
VolumeBug(dim, tp_fix) == NmProd([k \in 1..dim |-> R(SelfBounds[2], 1)])

\* nm.prod(bbox.sum(axis=1)) * tp_fix with bbox = [self.bounds] * dim
Volume(dim, tp_fix) ==
    RMul(NmProd([k \in 1..dim |-> R(SelfBounds[1] + SelfBounds[2], 1)]), tp_fix)

\* Variant of SourceVolume that takes the span once instead of per axis.
SourceVolumeBug(dim, bounds, tp_fix) == RMul(RSub(bounds.b, bounds.a), tp_fix)

\* nm.prod(nm.diff(bbox, axis=1)) * tp_fix with bbox = [bounds] * dim
SourceVolume(dim, bounds, tp_fix) ==
    RMul(NmProd([k \in 1..dim |-> RSub(bounds.b, bounds.a)]), tp_fix)

\* isym = 0 if data[0, 0] == 0 else None
SymIndex(data) == IF REq(data.rows[1][1], Zero) THEN "0" ELSE "None"

AffineC1(a, b, c, d) == RDiv(RSub(d, c), RSub(b, a))

\* Variant of AffineC2 with the two products swapped (sign error).
AffineC2Bug(a, b, c, d) == RDiv(RSub(RMul(a, d), RMul(b, c)), RSub(b, a))

AffineC2(a, b, c, d) == RDiv(RSub(RMul(b, c), RMul(a, d)), RSub(b, a))

\* self.coors = c1 * self.coors + c2
TransformCoors(coors, bounds) ==
    LET c  == R(SelfBounds[1], 1)
        d  == R(SelfBounds[2], 1)
        c1 == AffineC1(bounds.a, bounds.b, c, d)
        c2 == AffineC2(bounds.a, bounds.b, c, d)
    IN  [i \in 1..Len(coors) |->
            [j \in 1..Len(coors[i]) |-> RAdd(RMul(c1, coors[i][j]), c2)]]

\* Variant of TransformWeights that leaves the weights unscaled.
TransformWeightsBug(weights, selfvolume, volume) == weights

\* self.weights *= self.volume / volume
TransformWeights(weights, selfvolume, volume) ==
    [i \in 1..Len(weights) |-> RMul(weights[i], RDiv(selfvolume, volume))]

\* s[:isym:-1]: the elements from the last one down to, but excluding,
\* index isym (0-based); all of them, reversed, when isym is None.
ReverseDownTo(s, isym) ==
    LET stop == IF isym = "0" THEN 2 ELSE 1
    IN  [i \in 1..(Len(s) - stop + 1) |-> s[Len(s) - i + 1]]

\* nm.r_[2 * origin - self.coors[:isym:-1], self.coors]
MirrorCoors(coors, isym) ==
    LET centre == RMul(Half, R(SelfBounds[1] + SelfBounds[2], 1))
        rev    == ReverseDownTo(coors, isym)
    IN  [i \in 1..Len(rev) |->
            [j \in 1..Len(rev[i]) |-> RSub(RMul(Two, centre), rev[i][j])]]
        \o coors

\* nm.r_[self.weights[:isym:-1], self.weights]
MirrorWeights(weights, isym) == ReverseDownTo(weights, isym) \o weights

\* Lines 89-118, entered with self.coors and self.weights set; data is the
\* local name `data` as it stands after lines 77-87.
Canonicalize(data, selfcoors, selfweights, bounds, tp_fix, symmetric) ==
    LET n_point == Len(selfcoors)
        dim     == Len(selfcoors[1])
        volume  == Volume(dim, tp_fix)
    IN  IF symmetric /\ data.kind # "array"
        THEN Failure("TypeError")
        ELSE
          LET isym == IF symmetric THEN SymIndex(data) ELSE "None"
              coors1 == IF bounds.given
                        THEN TransformCoors(selfcoors, bounds)
                        ELSE selfcoors
              weights1 == IF bounds.given
                          THEN TransformWeights(selfweights, volume,
                                                SourceVolume(dim, bounds, tp_fix))
                          ELSE selfweights
          IN  IF symmetric /\ dim # 1
              THEN Failure("ValueError_dim")
              ELSE [err     |-> "none",
                    coors   |-> IF symmetric THEN MirrorCoors(coors1, isym)
                                ELSE coors1,
                    weights |-> IF symmetric THEN MirrorWeights(weights1, isym)
                                ELSE weights1,
                    n_point |-> n_point,
                    dim     |-> dim,
                    volume  |-> volume,
                    bounds  |-> SelfBounds]

\* QuadraturePoints.__init__
QuadraturePoints(data, coors, weights, bounds, tp_fix, symmetric) ==
    IF coors.kind = "none"
    THEN IF data.kind = "ragged"
         THEN Failure("ValueError_array")
         ELSE LET arr == NmArray2D(data)
              IN  Canonicalize(arr, ColumnsButLast(arr.rows),
                               LastColumn(arr.rows), bounds, tp_fix, symmetric)
    ELSE IF weights.kind # "none"
         THEN Canonicalize(data, coors.rows, weights.rows, bounds, tp_fix,
                           symmetric)
         ELSE Failure("ValueError_both")

Call(data, coors, weights, bounds, tp_fix, symmetric) ==
    [data |-> data, coors |-> coors, weights |-> weights, bounds |-> bounds,
     tp_fix |-> tp_fix, symmetric |-> symmetric]

Construct(c) ==
    QuadraturePoints(c.data, c.coors, c.weights, c.bounds, c.tp_fix, c.symmetric)

\* ---------------------------------------------------------- quadrature_tables
\* 0.577350269189626 (1/sqrt(3)), kept to three decimals so that products of
\* numerators and denominators stay within TLC's integers.
G3 == R(577, 1000)

TableKeys == {"1_2/1", "1_2/3", "2_3/1", "2_3/2", "3_4/1", "3_8/3"}

\* The literal arguments of the _QP(...) calls whose numbers are exact.
TableCall(key) ==
    CASE key = "1_2/1" ->
           Call(ListArg(<< <<Zero, Two>> >>), NoneArg, NoneArg,
                Bounds(R(-1, 1), One), One, TRUE)
      [] key = "1_2/3" ->
           Call(ListArg(<< <<G3, One>> >>), NoneArg, NoneArg,
                Bounds(R(-1, 1), One), One, TRUE)
      [] key = "2_3/1" ->
           Call(ListArg(<< <<R(1, 3), R(1, 3), Half>> >>), NoneArg, NoneArg,
                NoBounds, Half, FALSE)
      [] key = "2_3/2" ->
           Call(ListArg(<< <<R(1, 6), R(1, 6), R(1, 6)>>,
                           <<R(2, 3), R(1, 6), R(1, 6)>>,
                           <<R(1, 6), R(2, 3), R(1, 6)>> >>), NoneArg, NoneArg,
                NoBounds, Half, FALSE)
      [] key = "3_4/1" ->
           Call(ListArg(<< <<R(1, 4), R(1, 4), R(1, 4), R(1, 6)>> >>),
                NoneArg, NoneArg, NoBounds, R(1, 6), FALSE)
      [] key = "3_8/3" ->
           Call(ListArg(<< <<R(-1, 1), Zero, Zero, R(4, 3)>>,
                           <<One, Zero, Zero, R(4, 3)>>,
                           <<Zero, R(-1, 1), Zero, R(4, 3)>>,
                           <<Zero, One, Zero, R(4, 3)>>,
                           <<Zero, Zero, R(-1, 1), R(4, 3)>>,
                           <<Zero, Zero, One, R(4, 3)>> >>), NoneArg, NoneArg,
                Bounds(R(-1, 1), One), One, FALSE)

\* ------------------------------------------------------------ caller inputs
CoorSeq == <<Zero, Half, One, R(-1, 1)>>

WeightVals == {Half, One, Two}

\* A point of dimension d: its first component is CoorSeq[v], the following
\* components step cyclically through CoorSeq.
Point(v, d) == [j \in 1..d |-> CoorSeq[((v + j - 2) % Len(CoorSeq)) + 1]]

Points(d) == {Point(v, d) : v \in (IF d = 0 THEN {1} ELSE 1..Len(CoorSeq))}

DataRows(d) == {Append(p, w) : p \in Points(d), w \in WeightVals}

DataMatrices ==
    UNION {[1..n -> DataRows(d)] : n \in 1..MaxPoints, d \in 0..MaxDim}

CoorMatrices ==
    UNION {[1..n -> Points(d)] : n \in 1..MaxPoints, d \in 1..MaxDim}

WeightVectors == UNION {[1..n -> {Half, One}] : n \in 1..MaxPoints}

BoundsSet == {NoBounds, Bounds(R(-1, 1), One), Bounds(One, R(3, 1))}

TpFixSet == {One, Half}

\* Values of `data` passed along with separate coors and weights.
DataProbes ==
    {NoneArg, RaggedArg, ListArg(<< <<Zero, One>> >>),
     ArrayArg(<< <<Zero, One>> >>), ArrayArg(<< <<Half, One>> >>)}

\* --------------------------------------------------------------- behaviour
Init ==
    /\ origin = "none"
    /\ args = Call(NoneArg, NoneArg, NoneArg, NoBounds, One, FALSE)
    /\ rule = NoRule

\* QuadraturePoints(data, [weights=...], bounds=..., tp_fix=..., symmetric=...)
ConstructFromData ==
    /\ origin = "none"
    /\ \E data \in {NoneArg, RaggedArg} \cup {ListArg(m) : m \in DataMatrices},
          weights \in {NoneArg, ListArg(<<One>>)},
          bounds \in BoundsSet, tp_fix \in TpFixSet, symmetric \in BOOLEAN :
          /\ args' = Call(data, NoneArg, weights, bounds, tp_fix, symmetric)
          /\ rule' = Construct(args')
    /\ origin' = "call"

\* QuadraturePoints(data, coors=..., [weights=...], ...)
ConstructFromCoors ==
    /\ origin = "none"
    /\ \E data \in DataProbes,
          coors \in {ListArg(m) : m \in CoorMatrices},
          weights \in {NoneArg} \cup {ListArg(w) : w \in WeightVectors},
          bounds \in BoundsSet, tp_fix \in TpFixSet, symmetric \in BOOLEAN :
          /\ args' = Call(data, coors, weights, bounds, tp_fix, symmetric)
          /\ rule' = Construct(args')
    /\ origin' = "call"

\* One entry of quadrature_tables, built at import.
LoadTable ==
    /\ origin = "none"
    /\ \E key \in TableKeys :
          /\ origin' = key
          /\ args' = TableCall(key)
          /\ rule' = Construct(args')

Next == ConstructFromData \/ ConstructFromCoors \/ LoadTable

Spec == Init /\ [][Next]_vars

\* ------------------------------------------------- vocabulary of the claims
Built == rule.err = "none"

Called == origin # "none"

\* x <= y; no comparison with nan holds.
RLe(x, y) == ~IsNaN(x) /\ ~IsNaN(y) /\ x[1] * y[2] <= y[1] * x[2]

\* The sum of a vector of weights.
RECURSIVE NmSum(_)
NmSum(s) == IF s = <<>> THEN Zero ELSE RAdd(s[1], NmSum(Tail(s)))

\* The coordinates and weights as supplied, before any transform.
RawCoors ==
    IF args.coors.kind = "none"
    THEN ColumnsButLast(NmArray2D(args.data).rows)
    ELSE args.coors.rows

RawWeights ==
    IF args.coors.kind = "none"
    THEN LastColumn(NmArray2D(args.data).rows)
    ELSE args.weights.rows

\* One of the two documented input shapes, with parseable content.
CombinedShape ==
    /\ args.coors.kind = "none"
    /\ args.weights.kind = "none"
    /\ args.data.kind \in {"list", "array"}

SeparateShape == args.coors.kind # "none" /\ args.weights.kind # "none"

RowsAgree == Len(RawCoors) = Len(RawWeights)

\* The interval the raw coordinates are given on.
SrcA == IF args.bounds.given THEN args.bounds.a ELSE Zero
SrcB == IF args.bounds.given THEN args.bounds.b ELSE One

RECURSIVE RPow(_, _)
RPow(x, k) == IF k = 0 THEN One ELSE RMul(x, RPow(x, k - 1))

\* (x - a) / (b - a)
ToUnit(x) == RDiv(RSub(x, SrcA), RSub(SrcB, SrcA))

FirstRawIsZero == Len(RawCoors[1]) >= 1 /\ REq(RawCoors[1][1], Zero)

\* ------------------------------------------------------------------- C1
\* C1: after every successful construction the number of rows of coors, the
\* length of weights and n_point are equal; with symmetric=True and n raw
\* rows, n_point is 2n - 1 when the first raw coordinate is 0, else 2n.
\* (Stated for inputs whose coordinate and weight counts agree.)
C1_CountsAgree ==
    (Built /\ RowsAgree) =>
        /\ Len(rule.coors) = Len(rule.weights)
        /\ Len(rule.weights) = rule.n_point
        /\ args.symmetric =>
              rule.n_point = IF FirstRawIsZero THEN 2 * Len(RawCoors) - 1
                             ELSE 2 * Len(RawCoors)

\* ------------------------------------------------------------------- C2
IsTable121 == Called /\ args = TableCall("1_2/1")
IsTable123 == Called /\ args = TableCall("1_2/3")

\* C2 as claimed: symmetric expansion with bounds=(-1,1) leaves the tabulated
\* weights unchanged: [[0, 2]] gives one point at 0.5 of weight 2, and
\* [[0.577.., 1]] gives two points symmetric about 0.5 of weight 1 each.
C2_WeightsUnchanged ==
    /\ IsTable121 =>
          /\ Built
          /\ rule.coors = << <<Half>> >>
          /\ rule.weights = <<Two>>
    /\ IsTable123 =>
          /\ Built
          /\ Len(rule.coors) = 2
          /\ rule.coors[1] # rule.coors[2]
          /\ RAdd(rule.coors[1][1], rule.coors[2][1]) = One
          /\ rule.weights = <<One, One>>

\* C2 amended: the weights are rescaled by volume / source volume = 1/2:
\* [[0, 2]] gives one point at 0.5 of weight 1, and [[0.577.., 1]] gives two
\* rows of coors, symmetric about 0.5, of weight 0.5 each.
C2_WeightsHalved ==
    /\ IsTable121 =>
          /\ Built
          /\ rule.coors = << <<Half>> >>
          /\ rule.weights = <<One>>
    /\ IsTable123 =>
          /\ Built
          /\ Len(rule.coors) = 2
          /\ rule.coors[1] # rule.coors[2]
          /\ RAdd(rule.coors[1][1], rule.coors[2][1]) = One
          /\ rule.weights = <<Half, Half>>

C2_Witness == origin = "1_2/3" /\ Built /\ Len(rule.weights) = 2

\* ------------------------------------------------------------------- C3
\* The mirrored copies present in the rule are copies of the last raw weights.
MirroredCopies ==
    LET m == Len(rule.weights) - Len(RawWeights)
    IN  SubSeq(RawWeights, Len(RawWeights) - m + 1, Len(RawWeights))

RawWeightsFillSource ==
    RAdd(NmSum(RawWeights), NmSum(MirroredCopies))
        = RMul(RPow(RSub(SrcB, SrcA), rule.dim), args.tp_fix)

NeitherShape ==
    \/ args.coors.kind # "none" /\ args.weights.kind = "none"
    \/ args.coors.kind = "none" /\ args.weights.kind # "none"
    \/ /\ args.coors.kind = "none"
       /\ args.weights.kind = "none"
       /\ args.data.kind \in {"none", "ragged"}

\* C4: construction fails, producing no rule, whenever the input matches
\* neither supported shape: coors without weights, weights without coors, or
\* both omitted while data is None or unusable.
C4_NeitherShapeFails == (origin = "call" /\ NeitherShape) => ~Built

\* ------------------------------------------------------------------- C5
\* C5: every construction with symmetric=True whose coordinate matrix has
\* dim # 1 fails with the dimensionality-constraint error, for both input
\* shapes and every bounds setting.
C5_SymmetricNeedsDim1 ==
    (Called /\ args.symmetric /\ (CombinedShape \/ SeparateShape)
        /\ Len(RawCoors[1]) # 1)
    => rule.err = "ValueError_dim"

\* ------------------------------------------------------------------- C6
\* C6: when both coors and weights are supplied, data is ignored: every other
\* value of data gives the same rule or the same failure.
C6_DataIgnored ==
    (origin = "call" /\ SeparateShape) =>
        \A d \in DataProbes :
            QuadraturePoints(d, args.coors, args.weights, args.bounds,
                             args.tp_fix, args.symmetric) = rule

\* ------------------------------------------------------------------- C7
InSource(x) == RLe(SrcA, x) /\ RLe(x, SrcB)

InUnit(x) == RLe(Zero, x) /\ RLe(x, One)

\* C7: with bounds=(a, b), a < b, and symmetric=False, output coordinate i is
\* (x_i - a) / (b - a) componentwise, in input order ((x + 1) / 2 for bounds
\* (-1, 1)); the output lies in [0, 1]^dim when the input lies in [a, b]^dim.
C7_AffineMap ==
    (Built /\ args.bounds.given /\ ~args.symmetric) =>
        /\ Len(rule.coors) = Len(RawCoors)
        /\ \A i \in 1..Len(RawCoors) :
              /\ Len(rule.coors[i]) = Len(RawCoors[i])
              /\ \A j \in 1..Len(RawCoors[i]) :
                    /\ rule.coors[i][j] = ToUnit(RawCoors[i][j])
                    /\ args.bounds = Bounds(R(-1, 1), One) =>
                          rule.coors[i][j]
                              = RDiv(RAdd(RawCoors[i][j], One), Two)
        /\ (\A i \in 1..Len(RawCoors) : \A j \in 1..Len(RawCoors[i]) :
               InSource(RawCoors[i][j]))
           => \A i \in 1..Len(rule.coors) : \A j \in 1..Len(rule.coors[i]) :
                 InUnit(rule.coors[i][j])

C7_Witness ==
    /\ Built
    /\ ~args.symmetric
    /\ args.bounds = Bounds(R(-1, 1), One)
    /\ rule.dim = 2
    /\ Len(rule.coors) = 2
    /\ rule.coors[1] # rule.coors[2]
    /\ \A i \in 1..2 : \A j \in 1..2 : InSource(RawCoors[i][j])

\* ------------------------------------------------------------------- C8
\* C8: for every successful construction the volume field equals tp_fix and
\* the bounds field equals (0, 1); the triangle rule with tp_fix=0.5 has
\* volume 0.5.
C8_VolumeIsTpFix ==
    /\ Built => rule.volume = args.tp_fix /\ rule.bounds = <<0, 1>>
    /\ origin = "2_3/1" => Built /\ rule.volume = Half

C8_Witness ==
    /\ Built
    /\ args.tp_fix = Half
    /\ args.bounds.given
    /\ args.symmetric
    /\ rule.dim = 1

\* ------------------------------------------------------------------- C9
\* The raw rows after the bounds transform.
XAfter == [i \in 1..Len(RawCoors) |-> ToUnit(RawCoors[i][1])]

WAfter ==
    [i \in 1..Len(RawWeights) |->
        RDiv(RawWeights[i], RPow(RSub(SrcB, SrcA), rule.dim))]

\* C9: a symmetric 1D rule is coors = [1 - x_n, .., 1 - x_k, x_1, .., x_n] and
\* weights = [w_n, .., w_k, w_1, .., w_n], with k = 2 if the first raw
\* coordinate is exactly 0 and k = 1 otherwise; with symmetric=False the
\* final order is the input order.
C9_MirrorOrder ==
    (Built /\ RowsAgree /\ rule.dim = 1) =>
        LET n == Len(RawCoors)
            k == IF FirstRawIsZero THEN 2 ELSE 1
        IN  IF args.symmetric
            THEN /\ rule.coors =
                      [i \in 1..(n - k + 1) |-> <<RSub(One, XAfter[n - i + 1])>>]
                      \o [i \in 1..n |-> <<XAfter[i]>>]
                 /\ rule.weights =
                      [i \in 1..(n - k + 1) |-> WAfter[n - i + 1]] \o WAfter
            ELSE /\ rule.coors = [i \in 1..n |-> <<XAfter[i]>>]
                 /\ rule.weights = WAfter

\* ------------------------------------------------------------------ C10
Occurrences(x, w) ==
    Cardinality({i \in 1..Len(rule.coors) :
                    rule.coors[i][1] = x /\ rule.weights[i] = w})

\* C10: every rule produced with symmetric=True from non-negative raw
\* coordinates is mirror-symmetric about 0.5: each (coordinate, weight) pair
\* occurs as often as its mirror image (1 - coordinate, weight).
C10_MirrorSymmetric ==
    (Built /\ args.symmetric /\ RowsAgree
        /\ \A i \in 1..Len(RawCoors) : RLe(Zero, RawCoors[i][1]))
    => \A i \in 1..Len(rule.coors) :
          Occurrences(RSub(One, rule.coors[i][1]), rule.weights[i])
              = Occurrences(rule.coors[i][1], rule.weights[i])

====
